---- MODULE Spec2Model ----
(***************************************************************************)
(* Model of registrations/tasks.py of familyconnect-registration: the      *)
(* ValidateRegistration task (validate, check_field_values,                *)
(* create_subscriptionrequests, run) and the field validators it uses.     *)
(*                                                                         *)
(* Python values are modelled as follows.  A str is a TLA+ string; s[i]    *)
(* (0-based) is Ch(s, i).  A value stored in the JSON mapping              *)
(* registration.data is a record tagged with its Python type: Str(s),      *)
(* IntV(n), NoneV or ListV(l).  A dict is a function from its keys.        *)
(***************************************************************************)
EXTENDS Integers, Sequences, FiniteSets, TLC

(* ------------------------------ bounds --------------------------------- *)

\* Number of task dispatches (first deliveries, retries, duplicates); any
\* number of them may run at the same time, each on a worker of its own.
MaxDispatches == 2

\* Number of times the clock may move to the next day.
MaxDayAdvances == 1

(* --------------------------- Python values ----------------------------- *)

Str(s) == [t |-> "str", s |-> s]

IntV(n) == [t |-> "int", n |-> n]

NoneV == [t |-> "none"]

ListV(l) == [t |-> "list", l |-> l]

\* s[i] of a Python str, i counted from 0
Ch(s, i) == SubSeq(s, i + 1, i + 1)

\* d[k] = v on a dict
SetItem(d, k, v) == [x \in (DOMAIN d) \cup {k} |-> IF x = k THEN v ELSE d[x]]

DigitChars == {"0", "1", "2", "3", "4", "5", "6", "7", "8", "9"}

NonZeroDigitChars == DigitChars \ {"0"}

DigitValue(c) ==
    CASE c = "0" -> 0 [] c = "1" -> 1 [] c = "2" -> 2 [] c = "3" -> 3
      [] c = "4" -> 4 [] c = "5" -> 5 [] c = "6" -> 6 [] c = "7" -> 7
      [] c = "8" -> 8 [] c = "9" -> 9

\* int() of the decimal digits s[i : i + n]; a leading blank counts as nothing
RECURSIVE ToInt(_, _, _)
ToInt(s, i, n) ==
    IF n = 0 THEN 0
    ELSE LET c == Ch(s, i + n - 1)
         IN  IF c = " " THEN ToInt(s, i, n - 1)
             ELSE ToInt(s, i, n - 1) * 10 + DigitValue(c)

(* ------------------- datetime.strptime(date, "%Y%m%d") ----------------- *)

\* %Y is the regex \d\d\d\d
MatchesY(s) ==
    /\ Len(s) >= 4
    /\ \A i \in 0..3 : Ch(s, i) \in DigitChars

\* %m is the regex 1[0-2]|0[1-9]|[1-9]: the lengths of the alternatives that
\* match at index i, in the order the regex engine tries them
MonthAlternatives(s, i) ==
    LET two == /\ i + 1 < Len(s)
               /\ \/ Ch(s, i) = "1" /\ Ch(s, i + 1) \in {"0", "1", "2"}
                  \/ Ch(s, i) = "0" /\ Ch(s, i + 1) \in NonZeroDigitChars
        one == i < Len(s) /\ Ch(s, i) \in NonZeroDigitChars
    IN  (IF two THEN <<2>> ELSE <<>>) \o (IF one THEN <<1>> ELSE <<>>)

\* %d is the regex 3[0-1]|[1-2]\d|0[1-9]|[1-9]| [1-9]
DayAlternatives(s, j) ==
    LET two == /\ j + 1 < Len(s)
               /\ \/ Ch(s, j) = "3" /\ Ch(s, j + 1) \in {"0", "1"}
                  \/ Ch(s, j) \in {"1", "2"} /\ Ch(s, j + 1) \in DigitChars
                  \/ Ch(s, j) = "0" /\ Ch(s, j + 1) \in NonZeroDigitChars
        one == j < Len(s) /\ Ch(s, j) \in NonZeroDigitChars
        blank == /\ j + 1 < Len(s)
                 /\ Ch(s, j) = " "
                 /\ Ch(s, j + 1) \in NonZeroDigitChars
    IN  (IF two THEN <<2>> ELSE <<>>) \o (IF one THEN <<1>> ELSE <<>>)
            \o (IF blank THEN <<2>> ELSE <<>>)

IsLeapYear(y) == (y % 4 = 0 /\ y % 100 # 0) \/ y % 400 = 0

DaysInMonth(y, m) ==
    IF m = 2 THEN (IF IsLeapYear(y) THEN 29 ELSE 28)
    ELSE IF m \in {4, 6, 9, 11} THEN 30 ELSE 31

NoDate == [ok |-> FALSE, year |-> 0, month |-> 0, day |-> 0]

\* The date strptime returns for a str, or NoDate where it raises ValueError:
\* no match of the format, unconverted data after the match, or a day that
\* the month does not have.
strptime(s) ==
    IF ~MatchesY(s) THEN NoDate
    ELSE
      LET ms   == MonthAlternatives(s, 4)
          good == {k \in 1..Len(ms) : DayAlternatives(s, 4 + ms[k]) # <<>>}
      IN  IF good = {} THEN NoDate
          ELSE
            LET k  == CHOOSE x \in good : \A z \in good : x <= z
                ml == ms[k]
                dl == Head(DayAlternatives(s, 4 + ml))
                y  == ToInt(s, 0, 4)
                m  == ToInt(s, 4, ml)
                d  == ToInt(s, 4 + ml, dl)
            IN  IF 4 + ml + dl # Len(s) THEN NoDate
                ELSE IF y < 1 \/ d > DaysInMonth(y, m) THEN NoDate
                ELSE [ok |-> TRUE, year |-> y, month |-> m, day |-> d]

\* date.toordinal(): days since 0001-01-01, that day being 1
toordinal(date) ==
    LET y   == IF date.month <= 2 THEN date.year - 1 ELSE date.year
        era == y \div 400
        yoe == y - era * 400
        mp  == (date.month + 9) % 12
        doy == (153 * mp + 2) \div 5 + date.day - 1
        doe == yoe * 365 + yoe \div 4 - yoe \div 100 + doy
    IN  era * 146097 + doe - 305

(* --------------------------- field validators -------------------------- *)

\* strptime raises TypeError on a value that is no str; the bare except
\* turns every error into False
is_valid_date(date) ==
    IF date.t # "str" THEN FALSE ELSE strptime(date.s).ok

\* is_valid_uuid without the check of the character at index 19
is_valid_uuid_any_variant(id) == Len(id) = 36 /\ Ch(id, 14) = "4"

is_valid_uuid(id) ==
    Len(id) = 36 /\ Ch(id, 14) = "4" /\ Ch(id, 19) \in {"a", "b", "8", "9"}

is_valid_lang(lang) ==
    lang \in {Str("eng_UG"), Str("cgg_UG"), Str("xog_UG"), Str("lug_UG")}

is_valid_msg_type(msg_type) == msg_type \in {Str("text")}

is_valid_msg_receiver(msg_receiver) ==
    msg_receiver \in {Str("head_of_household"), Str("mother_to_be"),
                      Str("family_member"), Str("trusted_friend")}

is_valid_loss_reason(loss_reason) ==
    loss_reason \in {Str("miscarriage"), Str("stillborn"), Str("baby_died")}

is_valid_name(name) == name.t = "str"

is_valid_id_type(id_type) == id_type \in {Str("ugandan_id"), Str("other")}

is_valid_id_no(id_no) == id_no.t = "str"

(* ------------------ familyconnect_registration.utils ------------------- *)

\* utils.calc_pregnancy_week_lmp(today, lmp): whole weeks between the last
\* period date (a str holding a date, parsed as "%Y%m%d") and today
calc_pregnancy_week_lmp(now, lmp) ==
    (toordinal(now) - toordinal(strptime(lmp))) \div 7

\* utils.get_messageset_short_name(msg_receiver, stage, authority): the name
\* of the message set, decided by these three values
get_messageset_short_name(msg_receiver, stage, authority) ==
    <<"short_name", msg_receiver, stage, authority>>

\* utils.get_messageset_schedule_sequence(short_name, weeks): the message
\* set, its schedule and the position to start at, decided by these values
get_messageset_schedule_sequence(short_name, weeks) ==
    [msgset_id            |-> <<"messageset", short_name>>,
     msgset_schedule      |-> <<"schedule", short_name>>,
     next_sequence_number |-> <<"sequence", short_name, weeks>>]

(* --------------------------- check_field_values ------------------------ *)

\* The range check with strict bounds
preg_weeks_in_range_exclusive(preg_weeks) ==
    2 < preg_weeks /\ preg_weeks < 42

\* 2 <= preg_weeks <= 42
preg_weeks_in_range(preg_weeks) == 2 <= preg_weeks /\ preg_weeks <= 42

\* is_valid_uuid(registration_data[field]) calls len() on the value, which
\* raises TypeError when the value is a number or None
uuid_check_raises(field, registration_data) ==
    /\ field \in {"hoh_id", "receiver_id", "operator_id"}
    /\ registration_data[field].t \in {"int", "none"}

\* what one pass of the loop body appends to failures for one field
field_failures(field, registration_data, now) ==
    LET value == registration_data[field]
        uuid == IF /\ field \in {"hoh_id", "receiver_id", "operator_id"}
                   /\ ~is_valid_uuid(value.s)
                THEN <<field>> ELSE <<>>
        lang == IF field = "language" /\ ~is_valid_lang(value)
                THEN <<field>> ELSE <<>>
        msg_type == IF field = "msg_type" /\ ~is_valid_msg_type(value)
                    THEN <<field>> ELSE <<>>
        date == IF field \in {"last_period_date", "baby_dob", "mama_dob"}
                THEN IF ~is_valid_date(value) THEN <<field>>
                     ELSE (IF /\ field = "mama_dob"
                              /\ registration_data["mama_id_type"] # Str("other")
                           THEN <<"mama_dob requires id_type other">>
                           ELSE <<>>)
                          \o
                          (IF /\ field = "last_period_date"
                              /\ ~preg_weeks_in_range(
                                     calc_pregnancy_week_lmp(now, value.s))
                           THEN <<"last_period_date out of range">>
                           ELSE <<>>)
                ELSE <<>>
        receiver == IF field = "msg_receiver" /\ ~is_valid_msg_receiver(value)
                    THEN <<field>> ELSE <<>>
        loss == IF field = "loss_reason" /\ ~is_valid_loss_reason(value)
                THEN <<field>> ELSE <<>>
        name == IF /\ field \in {"hoh_name", "hoh_surname", "mama_name",
                                 "mama_surname"}
                   /\ ~is_valid_name(value)
                THEN <<field>> ELSE <<>>
        id_type == IF field = "mama_id_type" /\ ~is_valid_id_type(value)
                   THEN <<field>> ELSE <<>>
        id_no == IF field = "mama_id_no"
                 THEN (IF ~is_valid_id_no(value) THEN <<field>> ELSE <<>>)
                      \o
                      (IF ~(registration_data["mama_id_type"] = Str("ugandan_id"))
                       THEN <<"mama_id_no requires id_type ugandan_id">>
                       ELSE <<>>)
                 ELSE <<>>
    IN  uuid \o lang \o msg_type \o date \o receiver \o loss \o name
            \o id_type \o id_no

\* The orders in which `for field in fields` may visit a set of fields:
\* fields is list(set(...)), whose order Python does not define.
RECURSIVE iteration_orders(_)
iteration_orders(fields) ==
    IF fields = {} THEN {<<>>}
    ELSE UNION {{<<f>> \o rest : rest \in iteration_orders(fields \ {f})}
                : f \in fields}

RECURSIVE collect_failures(_, _, _)
collect_failures(order, registration_data, now) ==
    IF order = <<>> THEN <<>>
    ELSE field_failures(Head(order), registration_data, now)
            \o collect_failures(Tail(order), registration_data, now)

\* check_field_values(fields, registration_data): whether it raises, and the
\* failure lists it may return (one per order of the failing fields)
check_field_values_raises(fields, registration_data) ==
    \E field \in fields : uuid_check_raises(field, registration_data)

check_field_values(fields, registration_data, now) ==
    LET failing == {f \in fields :
                        field_failures(f, registration_data, now) # <<>>}
    IN  {collect_failures(order, registration_data, now) :
            order \in iteration_orders(failing)}

(* -------------------------------- schemas ------------------------------ *)

fields_general ==
    {"hoh_id", "receiver_id", "operator_id", "language", "msg_type"}

fields_prebirth == {"last_period_date", "msg_receiver"}

fields_loss == {"loss_reason"}

fields_hw_id == {"hoh_name", "hoh_surname", "mama_name", "mama_surname",
                 "mama_id_type", "mama_id_no"}

fields_hw_dob == {"hoh_name", "hoh_surname", "mama_name", "mama_surname",
                  "mama_id_type", "mama_dob"}

hw_pre_id == fields_general \cup fields_prebirth \cup fields_hw_id

hw_pre_dob == fields_general \cup fields_prebirth \cup fields_hw_dob

pbl_pre == fields_general \cup fields_prebirth

pbl_loss == fields_general \cup fields_loss

(* -------------------------------- validate ----------------------------- *)

\* The ways a call ends: it returns a value, or an exception leaves it.
\* `registration` is the model instance as the call leaves it, `saved` says
\* whether registration.save() wrote it to the database, and `branch` names
\* the place in validate that decided.
Returned(value, registration, branch) ==
    [raised |-> "", value |-> value, registration |-> registration,
     saved |-> TRUE, branch |-> branch]

Raised(exception, registration, branch) ==
    [raised |-> exception, value |-> FALSE, registration |-> registration,
     saved |-> FALSE, branch |-> branch]

\* A rejection that returns False and records no reason
reject_without_reason(registration, invalid_fields, branch) ==
    Returned(FALSE, registration, branch)

\* registration.data["invalid_fields"] = invalid_fields; return False
reject(registration, invalid_fields, branch) ==
    Returned(FALSE,
             [registration EXCEPT
                !.data = SetItem(@, "invalid_fields", invalid_fields)],
             branch)

\* An acceptance that records reg_type and preg_week and leaves validated
accept_prebirth_not_validated(registration, reg_type, now) ==
    Returned(TRUE,
             [registration EXCEPT
                !.data = SetItem(
                    SetItem(@, "reg_type", Str(reg_type)),
                    "preg_week",
                    IntV(calc_pregnancy_week_lmp(
                            now, registration.data["last_period_date"].s)))],
             reg_type)

\* registration.data["reg_type"] = reg_type (and, for a prebirth schema,
\* data["preg_week"] = the pregnancy week); validated = True; return True
accept_prebirth(registration, reg_type, now) ==
    Returned(TRUE,
             [registration EXCEPT
                !.data = SetItem(
                    SetItem(@, "reg_type", Str(reg_type)),
                    "preg_week",
                    IntV(calc_pregnancy_week_lmp(
                            now, registration.data["last_period_date"].s))),
                !.validated = TRUE],
             reg_type)

accept_loss(registration, reg_type) ==
    Returned(TRUE,
             [registration EXCEPT
                !.data = SetItem(@, "reg_type", Str(reg_type)),
                !.validated = TRUE],
             reg_type)

\* The receiver checks made when "msg_receiver" is a key of the data: "" when
\* they pass, "KeyError" when a lookup of a missing key raises, and otherwise
\* the text stored in invalid_fields.
receiver_check(registration) ==
    LET data == registration.data
        has(k) == k \in DOMAIN data
    IN  IF data["msg_receiver"] = Str("head_of_household")
        THEN IF ~has("hoh_id") \/ ~has("receiver_id") THEN "KeyError"
             ELSE IF data["hoh_id"] # data["receiver_id"]
                  THEN "hoh_id should be " \o "the same as receiver_id"
                  ELSE ""
        ELSE IF data["msg_receiver"] = Str("mother_to_be")
        THEN IF ~has("receiver_id") THEN "KeyError"
             ELSE IF Str(registration.mother_id) # data["receiver_id"]
                  THEN "mother_id should be " \o "the same as receiver_id"
                  ELSE ""
        ELSE IF data["msg_receiver"] \in
                    {Str("family_member"), Str("trusted_friend")}
        THEN IF ~has("receiver_id") THEN "KeyError"
             ELSE IF ~has("hoh_id") THEN "KeyError"
             ELSE IF \/ data["receiver_id"] = data["hoh_id"]
                     \/ data["receiver_id"] = Str(registration.mother_id)
                  THEN "receiver_id should" \o "differ from hoh_id and mother_id"
                  ELSE ""
        ELSE ""

\* One `if <schema matches>:` body: check the schema's fields, then accept or
\* reject.  The set of outcomes the call may have.
check_schema(registration, fields, reg_type, now) ==
    IF check_field_values_raises(fields, registration.data)
    THEN {Raised("TypeError", registration, reg_type)}
    ELSE {IF invalid_fields = <<>>
          THEN IF reg_type = "pbl_loss"
               THEN accept_loss(registration, reg_type)
               ELSE accept_prebirth(registration, reg_type, now)
          ELSE reject(registration, ListV(invalid_fields), reg_type)
          : invalid_fields \in
                check_field_values(fields, registration.data, now)}

\* The chain with the hw_pre_dob test ahead of the hw_pre_id test
schema_branches_dob_first(registration, now) ==
    LET data_fields == DOMAIN registration.data
        stage == registration.stage
        authority == registration.source.authority
    IN  IF /\ stage = "prebirth"
           /\ authority \in {"hw_limited", "hw_full"}
           /\ hw_pre_dob \subseteq data_fields
        THEN check_schema(registration, hw_pre_dob, "hw_pre_dob", now)
        ELSE IF /\ stage = "prebirth"
                /\ authority \in {"hw_limited", "hw_full"}
                /\ hw_pre_id \subseteq data_fields
        THEN check_schema(registration, hw_pre_id, "hw_pre_id", now)
        ELSE IF /\ stage = "prebirth"
                /\ authority \in {"patient", "advisor"}
                /\ pbl_pre \subseteq data_fields
        THEN check_schema(registration, pbl_pre, "pbl_pre", now)
        ELSE IF /\ stage = "loss"
                /\ authority \in {"patient", "advisor"}
                /\ pbl_loss \subseteq data_fields
        THEN check_schema(registration, pbl_loss, "pbl_loss", now)
        ELSE {reject(registration, Str("Invalid combination of fields"),
                     "no_schema")}

\* The if / elif chain that picks the schema
schema_branches(registration, now) ==
    LET data_fields == DOMAIN registration.data
        stage == registration.stage
        authority == registration.source.authority
    IN  IF /\ stage = "prebirth"
           /\ authority \in {"hw_limited", "hw_full"}
           /\ hw_pre_id \subseteq data_fields
        THEN check_schema(registration, hw_pre_id, "hw_pre_id", now)
        ELSE IF /\ stage = "prebirth"
                /\ authority \in {"hw_limited", "hw_full"}
                /\ hw_pre_dob \subseteq data_fields
        THEN check_schema(registration, hw_pre_dob, "hw_pre_dob", now)
        ELSE IF /\ stage = "prebirth"
                /\ authority \in {"patient", "advisor"}
                /\ pbl_pre \subseteq data_fields
        THEN check_schema(registration, pbl_pre, "pbl_pre", now)
        ELSE IF /\ stage = "loss"
                /\ authority \in {"patient", "advisor"}
                /\ pbl_loss \subseteq data_fields
        THEN check_schema(registration, pbl_loss, "pbl_loss", now)
        ELSE {reject(registration, Str("Invalid combination of fields"),
                     "no_schema")}

\* validate(registration): the set of outcomes the call may have
validate(registration, now) ==
    IF ~is_valid_uuid(registration.mother_id)
    THEN {reject(registration, Str("Invalid UUID mother_id"), "mother_id")}
    ELSE
      LET receiver == IF "msg_receiver" \in DOMAIN registration.data
                      THEN receiver_check(registration)
                      ELSE ""
      IN  IF receiver = "KeyError"
          THEN {Raised("KeyError", registration, "receiver")}
          ELSE IF receiver # ""
          THEN {reject(registration, Str(receiver), "receiver")}
          ELSE schema_branches(registration, now)

(* ---------------------- create_subscriptionrequests -------------------- *)

\* The lookups registration.data["baby_age"] and registration.data[
\* "msg_receiver"] raise KeyError when the key is missing
create_subscriptionrequests_raises(registration) ==
    \/ /\ "preg_week" \notin DOMAIN registration.data
       /\ "baby_age" \notin DOMAIN registration.data
    \/ "msg_receiver" \notin DOMAIN registration.data

\* mother_sub, the row SubscriptionRequest.objects.create() inserts
mother_sub(registration) ==
    LET weeks == IF "preg_week" \in DOMAIN registration.data
                 THEN registration.data["preg_week"]
                 ELSE registration.data["baby_age"]
        short_name == get_messageset_short_name(
                          registration.data["msg_receiver"],
                          registration.stage,
                          registration.source.authority)
        found == get_messageset_schedule_sequence(short_name, weeks)
    IN  [contact |-> registration.mother_id,
         messageset |-> found.msgset_id,
         next_sequence_number |-> found.next_sequence_number,
         lang |-> registration.data["language"],
         schedule |-> found.msgset_schedule]

(* ------------------------- registrations submitted --------------------- *)

\* Identifiers as submitters send them: four well-formed ones and the ways
\* an identifier can miss the checks of is_valid_uuid
HohId == "11111111-1111-4111-a111-111111111111"

MotherId == "22222222-2222-4222-8222-222222222222"

FriendId == "33333333-3333-4333-9333-333333333333"

OperatorId == "44444444-4444-4444-b444-444444444444"

MotherIds ==
    {MotherId,
     "22222222-2222-1222-8222-222222222222",
     "22222222-2222-4222-c222-222222222222",
     "22222222-2222-4222-8222-22222222222",
     "22222222-2222-4222-8222-2222222222222",
     "",
     "mother"}

\* The day the first task runs
FirstDay == [year |-> 2024, month |-> 9, day |-> 1]

\* last_period_date values around the limits of the range check on FirstDay
\* (13, 14, 7, 294, 300 and 301 days before it, after it, on it), dates that
\* strptime parses without zero padding, and values that are no date
LastPeriodDates ==
    {Str("20240819"), Str("20240818"), Str("20240825"), Str("20231112"),
     Str("20231106"), Str("20231105"), Str("20240908"), Str("20240902"),
     Str("20240901"), Str("2024818"), Str("202408 5"), Str("20240230"),
     Str("2024-08-18"), Str("202408181"), Str(""), IntV(20240818), NoneV}

GoodValue(field) ==
    CASE field \in {"hoh_id", "receiver_id"} -> Str(HohId)
      [] field = "operator_id" -> Str(OperatorId)
      [] field = "language" -> Str("eng_UG")
      [] field = "msg_type" -> Str("text")
      [] field = "last_period_date" -> Str("20240818")
      [] field = "msg_receiver" -> Str("head_of_household")
      [] field = "loss_reason" -> Str("miscarriage")
      [] field \in {"hoh_name", "mama_name"} -> Str("sam")
      [] field \in {"hoh_surname", "mama_surname"} -> Str("okello")
      [] field = "mama_id_type" -> Str("ugandan_id")
      [] field = "mama_id_no" -> Str("CF12345678")
      [] field = "mama_dob" -> Str("19900101")
      [] field = "baby_age" -> IntV(3)
      [] OTHER -> Str("extra")

BadValues(field) ==
    CASE field \in {"hoh_id", "receiver_id"} -> {Str("hoh"), NoneV}
      [] field = "operator_id" -> {Str("operator"), NoneV, IntV(7)}
      [] field = "language" -> {Str("fr_FR")}
      [] field = "msg_type" -> {Str("audio")}
      [] field = "last_period_date" -> {Str("20240825"), Str("2024-08-18")}
      [] field = "msg_receiver" -> {Str("neighbour")}
      [] field = "loss_reason" -> {Str("unknown")}
      [] field \in {"hoh_name", "mama_name", "hoh_surname", "mama_surname"}
            -> {IntV(7)}
      [] field = "mama_id_type" -> {Str("passport"), Str("other"),
                                    Str("ugandan_id")}
      [] field = "mama_id_no" -> {IntV(7)}
      [] field = "mama_dob" -> {Str("1990-01-01"), NoneV}
      [] OTHER -> {NoneV}

\* The dict with these keys: the overriding value where one is given, the
\* good value elsewhere
Dict(keys, overrides) ==
    [k \in keys |-> IF k \in DOMAIN overrides THEN overrides[k]
                    ELSE GoodValue(k)]

NoOverrides == [k \in {} |-> NoneV]

NewRegistration(stage, authority, mother_id, data) ==
    [stage |-> stage, source |-> [authority |-> authority],
     mother_id |-> mother_id, data |-> data, validated |-> FALSE]

Stages == {"prebirth", "loss"}

Authorities == {"hw_limited", "hw_full", "patient", "advisor"}

KeySets ==
    {hw_pre_id, hw_pre_dob, hw_pre_id \cup hw_pre_dob, pbl_pre, pbl_loss,
     pbl_pre \cup pbl_loss, fields_general, hw_pre_id \ {"language"}, {},
     pbl_loss \cup {"msg_receiver", "baby_age"}}

\* Every stage and authority with every set of keys, all values good
RegistrationsByShape ==
    {NewRegistration(stage, authority, MotherId, Dict(keys, overrides)) :
        stage \in Stages, authority \in Authorities, keys \in KeySets,
        overrides \in {NoOverrides, "mama_id_type" :> Str("other")}}

\* The four schemas, each under a stage and an authority that select it
Shapes ==
    {<<"prebirth", "hw_full", hw_pre_id, NoOverrides>>,
     <<"prebirth", "hw_limited", hw_pre_dob, "mama_id_type" :> Str("other")>>,
     <<"prebirth", "patient", pbl_pre, NoOverrides>>,
     <<"loss", "advisor", pbl_loss, NoOverrides>>}

\* The pairs of fields that are given bad values together
FieldPairs ==
    {{"hoh_id", "receiver_id"}, {"hoh_id", "msg_receiver"},
     {"mama_dob", "mama_id_type"}, {"mama_id_no", "mama_id_type"},
     {"language", "msg_type"}, {"language", "last_period_date"},
     {"language", "loss_reason"}}

\* The ways of giving one field, or the two fields of a pair, a bad value
BadOverrides ==
    {NoOverrides}
        \cup {f :> v : f \in hw_pre_id \cup hw_pre_dob \cup pbl_loss,
                       v \in UNION {BadValues(g) :
                                g \in hw_pre_id \cup hw_pre_dob \cup pbl_loss}}
        \cup {(f :> v) @@ (g :> w) :
                f \in UNION FieldPairs, g \in UNION FieldPairs,
                v \in UNION {BadValues(h) : h \in UNION FieldPairs},
                w \in UNION {BadValues(h) : h \in UNION FieldPairs}}

WellTyped(overrides) ==
    /\ \A f \in DOMAIN overrides : overrides[f] \in BadValues(f)
    /\ Cardinality(DOMAIN overrides) = 2 => DOMAIN overrides \in FieldPairs

\* Each schema with one of its fields, or a pair of them, holding a bad
\* value, and with three of them doing so
RegistrationsByValue ==
    {NewRegistration(shape[1], shape[2], MotherId,
                     Dict(shape[3], overrides @@ shape[4])) :
        shape \in Shapes,
        overrides \in {o \in BadOverrides : WellTyped(o)}
                        \cup {("language" :> Str("fr_FR"))
                                @@ ("msg_type" :> Str("audio"))
                                @@ ("operator_id" :> Str("operator"))}}

\* Every mother_id with a few dicts
RegistrationsByMother ==
    {NewRegistration("prebirth", "patient", mother_id, data) :
        mother_id \in MotherIds,
        data \in {Dict(pbl_pre, NoOverrides),
                  Dict(pbl_pre, "language" :> Str("fr_FR")),
                  Dict(pbl_pre, ("msg_receiver" :> Str("mother_to_be"))
                                  @@ ("receiver_id" :> Str(MotherId))),
                  Dict({"msg_receiver"}, NoOverrides),
                  Dict({}, NoOverrides)}}

\* Every msg_receiver with every relation between receiver_id, hoh_id and
\* mother_id, and with hoh_id or receiver_id missing
RegistrationsByReceiver ==
    {NewRegistration("prebirth", "patient", MotherId,
                     Dict(pbl_pre \ missing,
                          ("msg_receiver" :> Str(msg_receiver))
                            @@ ("receiver_id" :> Str(receiver_id))
                            @@ ("hoh_id" :> Str(hoh_id)))) :
        msg_receiver \in {"head_of_household", "mother_to_be",
                          "family_member", "trusted_friend", "neighbour"},
        receiver_id \in {HohId, MotherId, FriendId},
        hoh_id \in {HohId, MotherId},
        missing \in SUBSET {"hoh_id", "receiver_id"}}

\* Every last_period_date under a public and a health worker schema
RegistrationsByDate ==
    {NewRegistration("prebirth", authority, MotherId,
                     Dict(keys, "last_period_date" :> date)) :
        authority \in {"patient", "hw_full"},
        keys \in {pbl_pre \cup hw_pre_id},
        date \in LastPeriodDates}

Registrations ==
    RegistrationsByShape \cup RegistrationsByValue \cup RegistrationsByMother
        \cup RegistrationsByReceiver \cup RegistrationsByDate

(* ------------------------------ the system ----------------------------- *)

VARIABLES
    database,              \* the Registration row the tasks are about
    subscriptionrequests,  \* the SubscriptionRequest rows, in creation order
    task,                  \* per dispatch: where its run() is, what it holds
    today                  \* the date utils.get_today() returns

vars == <<database, subscriptionrequests, task, today>>

\* The dispatches of the task for the registration, in the order they start
Dispatches == 1..MaxDispatches

\* A dispatch that has not started
NoTask ==
    [pc |-> "queued",
     registration |-> NewRegistration("", "", "", NoOverrides),
     reg_validates |-> FALSE, branch |-> "", raised |-> "", frame |-> "",
     validation_string |-> ""]

\* The date after a date
next_day(date) ==
    IF date.day < DaysInMonth(date.year, date.month)
    THEN [date EXCEPT !.day = @ + 1]
    ELSE IF date.month < 12
    THEN [date EXCEPT !.month = @ + 1, !.day = 1]
    ELSE [year |-> date.year + 1, month |-> 1, day |-> 1]

Init ==
    /\ database \in Registrations
    /\ subscriptionrequests = <<>>
    /\ task = [w \in Dispatches |-> NoTask]
    /\ today = FirstDay

\* run(): registration = Registration.objects.get(id=registration_id)
RunGet(w) ==
    /\ task[w].pc = "queued"
    /\ \A earlier \in 1..(w - 1) : task[earlier].pc # "queued"
    /\ task' = [task EXCEPT ![w] =
                    [NoTask EXCEPT !.pc = "validate",
                                   !.registration = database]]
    /\ UNCHANGED <<database, subscriptionrequests, today>>

\* run(): reg_validates = self.validate(registration)
RunValidate(w) ==
    /\ task[w].pc = "validate"
    /\ \E outcome \in validate(task[w].registration, today) :
         /\ task' = [task EXCEPT ![w] =
                        [@ EXCEPT
                           !.pc = IF outcome.raised = "" THEN "finish"
                                  ELSE "done",
                           !.registration = outcome.registration,
                           !.reg_validates = outcome.value,
                           !.branch = outcome.branch,
                           !.raised = outcome.raised,
                           !.frame = IF outcome.raised = "" THEN ""
                                     ELSE "validate"]]
         /\ database' = IF outcome.saved THEN outcome.registration
                        ELSE database
    /\ UNCHANGED <<subscriptionrequests, today>>

\* run(): the rest, create_subscriptionrequests() included
RunFinish(w) ==
    /\ task[w].pc = "finish"
    /\ IF task[w].reg_validates
       THEN IF create_subscriptionrequests_raises(task[w].registration)
            THEN /\ task' = [task EXCEPT
                                ![w].pc = "done",
                                ![w].raised = "KeyError",
                                ![w].frame = "create_subscriptionrequests"]
                 /\ UNCHANGED subscriptionrequests
            ELSE /\ subscriptionrequests' =
                        Append(subscriptionrequests,
                               mother_sub(task[w].registration))
                 /\ task' = [task EXCEPT
                                ![w].pc = "done",
                                ![w].validation_string =
                                    "Validation completed - " \o "Success"]
       ELSE /\ task' = [task EXCEPT
                           ![w].pc = "done",
                           ![w].validation_string =
                               "Validation completed - " \o "Failure"]
            /\ UNCHANGED subscriptionrequests
    /\ UNCHANGED <<database, today>>

\* Midnight passes
AdvanceToday ==
    /\ toordinal(today) - toordinal(FirstDay) < MaxDayAdvances
    /\ today' = next_day(today)
    /\ UNCHANGED <<database, subscriptionrequests, task>>

\* The mama_id_type the schema a record falls under asks for: hw_pre_id, the
\* schema of a record that holds mama_id_no, wants "ugandan_id"; hw_pre_dob
\* wants "other"
RequiredIdType(data) ==
    IF "mama_id_no" \in DOMAIN data THEN Str("ugandan_id") ELSE Str("other")

\* The data after the submitter has put right what the list under
\* data["invalid_fields"] names: a field it names gets a good value, a marker
\* it holds gets the field the marker is about put right.  Nothing else is
\* touched, the list itself included.
CorrectedData(data) ==
    LET listed == {data["invalid_fields"].l[i] :
                        i \in 1..Len(data["invalid_fields"].l)}
        id_type == listed \cap {"mama_id_type",
                                "mama_dob requires id_type other",
                                "mama_id_no requires id_type ugandan_id"}
        lmp == listed \cap {"last_period_date",
                            "last_period_date out of range"}
    IN  [k \in DOMAIN data |->
            IF k = "mama_id_type" /\ id_type # {} THEN RequiredIdType(data)
            ELSE IF k = "last_period_date" /\ lmp # {} THEN GoodValue(k)
            ELSE IF k \in listed /\ k # "invalid_fields" THEN GoodValue(k)
            ELSE data[k]]

\* The submitter corrects the data of a registration that was rejected with
\* a list of failing fields
CorrectData ==
    /\ "invalid_fields" \in DOMAIN database.data
    /\ database.data["invalid_fields"].t = "list"
    /\ CorrectedData(database.data) # database.data
    /\ database' = [database EXCEPT !.data = CorrectedData(@)]
    /\ UNCHANGED <<subscriptionrequests, task, today>>

Next ==
    \/ \E w \in Dispatches : RunGet(w)
    \/ \E w \in Dispatches : RunValidate(w)
    \/ \E w \in Dispatches : RunFinish(w)
    \/ AdvanceToday
    \/ CorrectData

Spec == Init /\ [][Next]_vars

(* ------------------------------ properties ----------------------------- *)

\* The step in which dispatch w's call of validate returns, raises, or ends
\* either way, and the step in which its run() ends after validate returned
ValidateReturns(w) == task[w].pc = "validate" /\ task'[w].pc = "finish"

ValidateRaises(w) == task[w].pc = "validate" /\ task'[w].pc = "done"

ValidateEnds(w) == ValidateReturns(w) \/ ValidateRaises(w)

RunEnds(w) == task[w].pc = "finish" /\ task'[w].pc = "done"

Success == "Validation completed - Success"

Failure == "Validation completed - Failure"

\* The elements of a list
Elements(l) == {l[i] : i \in 1..Len(l)}

\* The SubscriptionRequest rows whose contact is this mother
RequestsFor(mother_id) ==
    {i \in 1..Len(subscriptionrequests) :
        subscriptionrequests[i].contact = mother_id}

\* C1: every task dispatch in which validate accepts the registration creates
\* exactly one SubscriptionRequest for the registration's mother and ends with
\* the status "Validation completed - Success".
C1_AcceptedDispatchProvisions ==
    [][\A w \in Dispatches :
        (RunEnds(w) /\ task[w].reg_validates) =>
            /\ task'[w].raised = ""
            /\ task'[w].validation_string = Success
            /\ Len(subscriptionrequests') = Len(subscriptionrequests) + 1
            /\ subscriptionrequests'[Len(subscriptionrequests')].contact =
                    task[w].registration.mother_id]_vars

\* C2: whatever the sequence or interleaving of dispatches for one
\* registration, at most one SubscriptionRequest is ever created for it.
C2_AtMostOneRequest == Cardinality(RequestsFor(database.mother_id)) <= 1

\* A non-empty failure reason under data["invalid_fields"]: a non-empty str
\* or a non-empty list
HasReason(data) ==
    /\ "invalid_fields" \in DOMAIN data
    /\ \/ data["invalid_fields"].t = "str" /\ Len(data["invalid_fields"].s) > 0
       \/ data["invalid_fields"].t = "list" /\ Len(data["invalid_fields"].l) > 0

\* C3: a task dispatch in which validate rejects the registration creates no
\* SubscriptionRequest, and leaves a non-empty failure reason in
\* data["invalid_fields"], on the instance and in the database.
C3_RejectionLeavesReason ==
    [][\A w \in Dispatches :
        /\ (ValidateReturns(w) /\ ~task'[w].reg_validates) =>
                /\ HasReason(task'[w].registration.data)
                /\ HasReason(database'.data)
                /\ subscriptionrequests' = subscriptionrequests
        /\ (RunEnds(w) /\ ~task[w].reg_validates) =>
                /\ subscriptionrequests' = subscriptionrequests
                /\ task'[w].validation_string = Failure
                /\ HasReason(task'[w].registration.data)]_vars

\* A dispatch ended in failure with a list of failing fields recorded and no
\* SubscriptionRequest created.
C3_Witness ==
    \E w \in Dispatches :
        /\ task[w].pc = "done"
        /\ task[w].validation_string = Failure
        /\ task[w].registration.data["invalid_fields"].t = "list"
        /\ subscriptionrequests = <<>>

\* C4: validate never raises: whatever keys the data holds and whatever
\* their values, it ends by returning.
C4_ValidateNeverRaises == \A w \in Dispatches : task[w].frame # "validate"

\* The four schemas in their fixed order, as the specification tabulates them
C5_Schemas ==
    <<[name |-> "hw_pre_id", stage |-> "prebirth",
       authorities |-> {"hw_limited", "hw_full"},
       fields |-> {"hoh_id", "receiver_id", "operator_id", "language",
                   "msg_type", "last_period_date", "msg_receiver",
                   "hoh_name", "hoh_surname", "mama_name", "mama_surname",
                   "mama_id_type", "mama_id_no"}],
      [name |-> "hw_pre_dob", stage |-> "prebirth",
       authorities |-> {"hw_limited", "hw_full"},
       fields |-> {"hoh_id", "receiver_id", "operator_id", "language",
                   "msg_type", "last_period_date", "msg_receiver",
                   "hoh_name", "hoh_surname", "mama_name", "mama_surname",
                   "mama_id_type", "mama_dob"}],
      [name |-> "pbl_pre", stage |-> "prebirth",
       authorities |-> {"patient", "advisor"},
       fields |-> {"hoh_id", "receiver_id", "operator_id", "language",
                   "msg_type", "last_period_date", "msg_receiver"}],
      [name |-> "pbl_loss", stage |-> "loss",
       authorities |-> {"patient", "advisor"},
       fields |-> {"hoh_id", "receiver_id", "operator_id", "language",
                   "msg_type", "loss_reason"}]>>

C5_Matching(registration) ==
    {i \in 1..Len(C5_Schemas) :
        /\ C5_Schemas[i].stage = registration.stage
        /\ registration.source.authority \in C5_Schemas[i].authorities
        /\ C5_Schemas[i].fields \subseteq DOMAIN registration.data}

\* The first schema in the order that matches, or "no_schema"
C5_FirstMatch(registration) ==
    LET matching == C5_Matching(registration)
    IN  IF matching = {} THEN [name |-> "no_schema", fields |-> {}]
        ELSE C5_Schemas[CHOOSE i \in matching : \A j \in matching : i <= j]

Markers ==
    {"mama_dob requires id_type other",
     "mama_id_no requires id_type ugandan_id",
     "last_period_date out of range"}

\* The record passes the mother_id check and the receiver checks
PassesIdentityChecks(registration) ==
    /\ is_valid_uuid(registration.mother_id)
    /\ \/ "msg_receiver" \notin DOMAIN registration.data
       \/ receiver_check(registration) = ""

\* C5: for a record that passes the mother_id and receiver checks, the schema
\* whose fields validate checks is the first, in the order hw_pre_id,
\* hw_pre_dob, pbl_pre, pbl_loss, whose stage matches, whose authorities hold
\* the source's authority and whose fields are all present; when none
\* matches, validate rejects with "Invalid combination of fields".
C5_FirstMatchingSchema ==
    [][\A w \in Dispatches :
        (ValidateEnds(w) /\ PassesIdentityChecks(task[w].registration)) =>
            LET first == C5_FirstMatch(task[w].registration)
                after == task'[w]
            IN  /\ after.branch = first.name
                /\ first.name = "no_schema" =>
                      /\ ValidateReturns(w)
                      /\ ~after.reg_validates
                      /\ after.registration.data["invalid_fields"] =
                            Str("Invalid combination of fields")
                /\ (ValidateReturns(w) /\ after.reg_validates) =>
                      after.registration.data["reg_type"] = Str(first.name)
                /\ (/\ ValidateReturns(w)
                    /\ ~after.reg_validates
                    /\ first.name # "no_schema") =>
                      /\ after.registration.data["invalid_fields"].t = "list"
                      /\ Elements(after.registration.data["invalid_fields"].l)
                            \subseteq first.fields \cup Markers]_vars

\* A record holding both mama_id_no and mama_dob was accepted as hw_pre_id.
C5_Witness ==
    \E w \in Dispatches :
        /\ task[w].pc = "finish"
        /\ task[w].reg_validates
        /\ {"mama_id_no", "mama_dob"} \subseteq DOMAIN task[w].registration.data
        /\ task[w].registration.data["reg_type"] = Str("hw_pre_id")

\* A 36-character string with '4' at index 14 and a, b, 8 or 9 at index 19
C6_WellFormed(mother_id) ==
    /\ Len(mother_id) = 36
    /\ Ch(mother_id, 14) = "4"
    /\ Ch(mother_id, 19) \in {"a", "b", "8", "9"}

\* C6: when mother_id is not such a string, validate returns false with
\* invalid_fields exactly "Invalid UUID mother_id", whatever the stage, the
\* authority and the data, and no receiver, schema or field check is made:
\* nothing raises and nothing else about the registration changes.
C6_BadMotherIdRejected ==
    [][\A w \in Dispatches :
        (ValidateEnds(w) /\ ~C6_WellFormed(task[w].registration.mother_id)) =>
            /\ ValidateReturns(w)
            /\ ~task'[w].reg_validates
            /\ task'[w].branch = "mother_id"
            /\ task'[w].registration =
                  [task[w].registration EXCEPT
                      !.data = SetItem(@, "invalid_fields",
                                       Str("Invalid UUID mother_id"))]
            /\ database' = task'[w].registration]_vars

\* A registration with a malformed mother_id, and with msg_receiver present
\* but hoh_id and receiver_id absent, was rejected for its mother_id.
C6_Witness ==
    \E w \in Dispatches :
        /\ task[w].pc = "finish"
        /\ ~C6_WellFormed(task[w].registration.mother_id)
        /\ Len(task[w].registration.mother_id) = 36
        /\ "msg_receiver" \in DOMAIN task[w].registration.data
        /\ "hoh_id" \notin DOMAIN task[w].registration.data
        /\ task[w].registration.data["invalid_fields"] =
                Str("Invalid UUID mother_id")

\* The reason the specification gives for the receiver rule the record
\* violates, or "" when it violates none
C7_Reason(registration) ==
    LET data == registration.data
    IN  IF /\ data["msg_receiver"] = Str("head_of_household")
           /\ data["hoh_id"] # data["receiver_id"]
        THEN "hoh_id should be the same as receiver_id"
        ELSE IF /\ data["msg_receiver"] = Str("mother_to_be")
                /\ Str(registration.mother_id) # data["receiver_id"]
        THEN "mother_id should be the same as receiver_id"
        ELSE IF /\ data["msg_receiver"] \in
                        {Str("family_member"), Str("trusted_friend")}
                /\ \/ data["receiver_id"] = data["hoh_id"]
                   \/ data["receiver_id"] = Str(registration.mother_id)
        THEN "receiver_id should differ from hoh_id and mother_id"
        ELSE ""

\* C7: when msg_receiver is present and its receiver rule is violated,
\* validate returns false before any schema or field check, with
\* invalid_fields equal to that rule's reason.
C7_ReceiverRuleReason ==
    [][\A w \in Dispatches :
        (/\ ValidateEnds(w)
         /\ is_valid_uuid(task[w].registration.mother_id)
         /\ {"msg_receiver", "hoh_id", "receiver_id"}
                \subseteq DOMAIN task[w].registration.data
         /\ C7_Reason(task[w].registration) # "") =>
            /\ ValidateReturns(w)
            /\ ~task'[w].reg_validates
            /\ task'[w].branch = "receiver"
            /\ task'[w].registration.data["invalid_fields"] =
                    Str(C7_Reason(task[w].registration))]_vars

\* Whether a value passes the validator of its field
C8_FieldIsValid(field, value) ==
    CASE field \in {"hoh_id", "receiver_id", "operator_id"} ->
            value.t = "str" /\ is_valid_uuid(value.s)
      [] field = "language" -> is_valid_lang(value)
      [] field = "msg_type" -> is_valid_msg_type(value)
      [] field \in {"last_period_date", "mama_dob"} -> is_valid_date(value)
      [] field = "msg_receiver" -> is_valid_msg_receiver(value)
      [] field = "loss_reason" -> is_valid_loss_reason(value)
      [] field \in {"hoh_name", "hoh_surname", "mama_name", "mama_surname"} ->
            is_valid_name(value)
      [] field = "mama_id_type" -> is_valid_id_type(value)
      [] field = "mama_id_no" -> is_valid_id_no(value)

\* Days from a last period date (a str that holds a date) to a day
C9_Days(now, lmp) == toordinal(now) - toordinal(strptime(lmp))

\* The failures the specification lists for a record checked against a
\* schema's fields
C8_Expected(fields, data, now) ==
    {f \in fields : ~C8_FieldIsValid(f, data[f])}
      \cup (IF "mama_dob" \in fields /\ data["mama_id_type"] # Str("other")
            THEN {"mama_dob requires id_type other"} ELSE {})
      \cup (IF /\ "mama_id_no" \in fields
               /\ data["mama_id_type"] # Str("ugandan_id")
            THEN {"mama_id_no requires id_type ugandan_id"} ELSE {})
      \cup (IF /\ "last_period_date" \in fields
               /\ is_valid_date(data["last_period_date"])
               /\ C9_Days(now, data["last_period_date"].s) \div 7 \notin 2..42
            THEN {"last_period_date out of range"} ELSE {})

\* C8: for a record matched to a schema, the list stored in invalid_fields
\* holds every field of the schema that fails its validator, the two
\* id_type markers whenever mama_dob or mama_id_no is checked against the
\* wrong mama_id_type, and the range marker whenever the pregnancy week is
\* outside 2..42; the record is rejected exactly when that list is non-empty.
C8_AllFailuresListed ==
    [][\A w \in Dispatches :
        (ValidateReturns(w) /\ C5_FirstMatch(task[w].registration).name
                                    # "no_schema"
                            /\ PassesIdentityChecks(task[w].registration)) =>
            LET expected == C8_Expected(
                                C5_FirstMatch(task[w].registration).fields,
                                task[w].registration.data, today)
                after == task'[w]
            IN  /\ after.reg_validates <=> expected = {}
                /\ ~after.reg_validates =>
                      /\ after.registration.data["invalid_fields"].t = "list"
                      /\ expected \subseteq
                            Elements(after.registration.data[
                                        "invalid_fields"].l)]_vars

SameItem(k, before, after) ==
    /\ k \in DOMAIN after <=> k \in DOMAIN before
    /\ k \in DOMAIN before => after[k] = before[k]

C11_ValidatedHasNoReason ==
    database.validated => "invalid_fields" \notin DOMAIN database.data

====
